----------------------------- MODULE Spec2Model -----------------------------
(***************************************************************************)
(* The LSB steganography codec of ss-steganography                         *)
(* (src/steganography.py, class AdvancedSteganography).                    *)
(*                                                                         *)
(* Conventions of the model                                                *)
(*   str    a sequence of Unicode code points                              *)
(*   bytes  a sequence of numbers in 0..255                                *)
(*   None   Python's None, the tuple <<-1>> (no str or bytes value)        *)
(*   image  a numpy array of shape (height, width, 3): a sequence of rows, *)
(*          each a sequence of pixels <<r, g, b>>; img_array[y, x] is      *)
(*          arr[y + 1][x + 1]                                              *)
(***************************************************************************)
EXTENDS Integers, Sequences, FiniteSets, TLC

None == <<-1>>

\* What bytes.decode('utf-8') raises on invalid input.
UnicodeDecodeError == <<-2>>

\* Python's truth value of an optional str: None and "" are false.
Truthy(v) == v # None /\ v # <<>>

Min(a, b) == IF a < b THEN a ELSE b

Max(a, b) == IF a > b THEN a ELSE b

(***************************************************************************)
(* Bounds of the model.                                                    *)
(***************************************************************************)
\* Longest message handed to encode, in characters.
MaxMsgLen == 2

\* Number of carrier pixel patterns.
NumBase == 2

(***************************************************************************)
(* __init__                                                                *)
(***************************************************************************)
\* self.marker = b'SSSTEGO'
marker == <<83, 83, 83, 84, 69, 71, 79>>

marker_size == Len(marker)

header_size == marker_size + 4

(***************************************************************************)
(* _embed_bit, _extract_bit                                                *)
(***************************************************************************)
\* A variant of embed_bit that adds the bit instead of setting it.
embed_bit_add(value, bit) == value + (bit % 2)

\* value = max(0, min(255, int(value))); bit = int(bit) & 1;
\* return (value & 0xFE) | bit
embed_bit(value, bit) ==
    LET v == Max(0, Min(255, value))
        b == bit % 2
    IN  (v - (v % 2)) + b

\* return value & 1
extract_bit(value) == value % 2

(***************************************************************************)
(* str.encode() / bytes.decode('utf-8') / struct / base64                  *)
(***************************************************************************)
\* UTF-8 encoding of one code point (no surrogates among the inputs).
encode_char(c) ==
    IF c < 128 THEN <<c>>
    ELSE IF c < 2048 THEN <<192 + (c \div 64), 128 + (c % 64)>>
    ELSE IF c < 65536
         THEN <<224 + (c \div 4096), 128 + ((c \div 64) % 64), 128 + (c % 64)>>
    ELSE <<240 + (c \div 262144), 128 + ((c \div 4096) % 64),
           128 + ((c \div 64) % 64), 128 + (c % 64)>>

\* message.encode(): the UTF-8 bytes of a str.
RECURSIVE str_encode(_)
str_encode(s) ==
    IF s = <<>> THEN <<>> ELSE encode_char(Head(s)) \o str_encode(Tail(s))

\* message_data.decode('utf-8'): the str of a byte sequence, or
\* UnicodeDecodeError (strict: no overlong forms, no surrogates, at most
\* U+10FFFF, no truncated or stray continuation bytes).
RECURSIVE bytes_decode(_)
bytes_decode(b) ==
    IF b = <<>> THEN <<>>
    ELSE
      LET n == Len(b)
          cont(i) == i <= n /\ b[i] >= 128 /\ b[i] < 192
          cp2 == (b[1] - 192) * 64 + (b[2] - 128)
          cp3 == (b[1] - 224) * 4096 + (b[2] - 128) * 64 + (b[3] - 128)
          cp4 == (b[1] - 240) * 262144 + (b[2] - 128) * 4096
                 + (b[3] - 128) * 64 + (b[4] - 128)
          rest(k, c) ==
              LET r == bytes_decode(SubSeq(b, k + 1, n))
              IN  IF r = UnicodeDecodeError THEN UnicodeDecodeError
                  ELSE <<c>> \o r
      IN  IF b[1] < 128 THEN rest(1, b[1])
          ELSE IF b[1] >= 194 /\ b[1] < 224 /\ cont(2) THEN rest(2, cp2)
          ELSE IF b[1] >= 224 /\ b[1] < 240 /\ cont(2) /\ cont(3)
                  /\ cp3 >= 2048 /\ ~(cp3 >= 55296 /\ cp3 <= 57343)
               THEN rest(3, cp3)
          ELSE IF b[1] >= 240 /\ b[1] < 245 /\ cont(2) /\ cont(3) /\ cont(4)
                  /\ cp4 >= 65536 /\ cp4 <= 1114111
               THEN rest(4, cp4)
          ELSE UnicodeDecodeError

\* struct.pack("<I", n), for 0 <= n < 2^32.
pack_le32(n) ==
    <<n % 256, (n \div 256) % 256, (n \div 65536) % 256,
      (n \div 16777216) % 256>>

\* struct.unpack("<I", b)[0] for a 4-byte b.
unpack_le32(b) == b[1] + 256 * b[2] + 65536 * b[3] + 16777216 * b[4]

\* The character of a base64 digit.
b64_char(i) ==
    IF i < 26 THEN 65 + i
    ELSE IF i < 52 THEN 97 + (i - 26)
    ELSE IF i < 62 THEN 48 + (i - 52)
    ELSE IF i = 62 THEN 43
    ELSE 47

\* base64.b64encode(b).decode('ascii')
RECURSIVE b64encode(_)
b64encode(b) ==
    IF b = <<>> THEN <<>>
    ELSE IF Len(b) = 1
         THEN <<b64_char(b[1] \div 4), b64_char((b[1] % 4) * 16), 61, 61>>
    ELSE IF Len(b) = 2
         THEN <<b64_char(b[1] \div 4),
                b64_char((b[1] % 4) * 16 + (b[2] \div 16)),
                b64_char((b[2] % 16) * 4), 61>>
    ELSE <<b64_char(b[1] \div 4),
           b64_char((b[1] % 4) * 16 + (b[2] \div 16)),
           b64_char((b[2] % 16) * 4 + (b[3] \div 64)),
           b64_char(b[3] % 64)>> \o b64encode(SubSeq(b, 4, Len(b)))

(***************************************************************************)
(* The random module: one process-wide Mersenne Twister.  Its state is     *)
(* [seed, pos]: the seed of the last random.seed call and the number of    *)
(* 32-bit words drawn since.                                               *)
(***************************************************************************)
\* The passwords of the model: "b" and "noos".
pw_b == <<98>>

pw_noos == <<110, 111, 111, 115>>

\* int.from_bytes(hashlib.sha256(password.encode()).digest()[:4], 'big'),
\* tabulated for the byte strings of the passwords of the model.
sha256_seed(data) ==
    CASE data = <<98>> -> 1042540566
      [] data = <<110, 111, 111, 115>> -> 1350579071

\* The first 150 output words of MT19937 after random.seed(seed), each
\* shifted right by 16 (getrandbits(k) is the word shifted right by 32 - k,
\* so for k <= 16 it is a prefix of these 16 bits).
mt_words(seed) ==
    CASE seed = 1042540566 -> <<
       13356, 10537, 42310, 16593, 43870, 41056, 56130, 9091, 60985, 14581, 53473,
       43982, 63016, 54274, 57362, 38578, 65014, 29714, 5211, 13776, 29011, 33093,
       16138, 22730, 52989, 30580, 41569, 36540, 4890, 32031, 65306, 25467, 45323,
       53282, 64123, 25922, 60950, 13390, 34005, 4347, 10046, 25791, 60741, 25760,
       60479, 9848, 65084, 48928, 38224, 48669, 57691, 32871, 16878, 46696, 64228,
       29038, 9625, 54639, 39255, 22018, 32857, 57565, 4744, 27312, 19058, 47882, 47108,
       22107, 36871, 45203, 65216, 8970, 18995, 22251, 13147, 24412, 45584, 46537,
       14265, 15553, 9903, 8356, 5123, 34272, 46431, 62072, 41381, 54275, 155, 59861,
       5183, 52074, 14378, 3342, 31635, 64651, 59596, 49593, 34008, 35372, 32216, 2497,
       33466, 2449, 36089, 21934, 377, 16467, 61862, 52099, 62184, 3, 2156, 17021,
       48261, 17079, 65411, 13066, 17612, 38153, 14355, 44762, 1497, 39386, 54515,
       12637, 15204, 7286, 31199, 47591, 61441, 39965, 1243, 42526, 26967, 52217, 4140,
       25023, 45722, 7770, 12780, 21212, 30571, 53348, 52848, 48092, 27170, 49285,
       62939, 22528 >>
      [] seed = 1350579071 -> <<
       43523, 13877, 9048, 7424, 836, 51131, 51669, 42077, 12828, 21720, 12157, 37176,
       17134, 58366, 21910, 41794, 65228, 61633, 9490, 131, 2293, 54153, 47285, 4337,
       53021, 1527, 34026, 49070, 49624, 31756, 16990, 2774, 37494, 3464, 24880, 28970,
       5848, 10536, 64208, 29504, 9788, 21619, 8959, 12899, 56534, 58885, 11446, 17423,
       28917, 29625, 61137, 26751, 57173, 288, 58841, 12645, 582, 43172, 28981, 56368,
       62568, 43890, 57176, 65303, 47830, 47546, 59760, 59804, 52155, 21039, 5295,
       15626, 45832, 8165, 8111, 3984, 14241, 17148, 4260, 43441, 39153, 32238, 51253,
       25454, 37033, 31057, 54408, 63061, 25455, 24875, 41774, 25142, 37041, 24830,
       19417, 24776, 48067, 26625, 5912, 39310, 4207, 49305, 22779, 34428, 32878, 1875,
       29995, 49047, 60437, 30954, 3180, 53575, 7584, 53597, 6112, 12112, 36435, 13773,
       10872, 15038, 17076, 42190, 48403, 41451, 23083, 15185, 44822, 10202, 46432,
       6668, 34620, 57897, 29755, 26677, 5858, 15977, 63788, 56578, 30724, 45520, 23326,
       1599, 5594, 59015, 62951, 5455, 53505, 60153, 52317, 31568 >>

\* The generator before any random.seed call of the program (seeded by the
\* interpreter from the operating system; nothing draws from it unseeded).
rng_unseeded == [seed |-> -1, pos |-> 0]

\* random.seed(seed)
random_seed(seed) == [seed |-> seed, pos |-> 0]

\* random.getrandbits(k), k <= 16: <<value, generator after the draw>>
getrandbits(g, k) ==
    <<mt_words(g.seed)[g.pos + 1] \div (2 ^ (16 - k)),
      [g EXCEPT !.pos = @ + 1]>>

\* int.bit_length()
RECURSIVE bit_length(_)
bit_length(n) == IF n = 0 THEN 0 ELSE 1 + bit_length(n \div 2)

\* Random._randbelow(n): k = n.bit_length(); r = getrandbits(k);
\* while r >= n: r = getrandbits(k)
RECURSIVE randbelow(_, _)
randbelow(g, n) ==
    LET d == getrandbits(g, bit_length(n))
    IN  IF d[1] >= n THEN randbelow(d[2], n) ELSE d

\* A swap that loses x[i]: x[i] = x[j]; x[j] = x[i] one after the other.
swap_overwrite(x, i, j) == [x EXCEPT ![i + 1] = x[j + 1]]

\* x[i], x[j] = x[j], x[i] on a 0-based list
swap(x, i, j) == [x EXCEPT ![i + 1] = x[j + 1], ![j + 1] = x[i + 1]]

\* One iteration of random.shuffle's loop, at index i:
\* j = randbelow(i + 1); x[i], x[j] = x[j], x[i]
shuffle_step(x, i, g) ==
    LET d == randbelow(g, i + 1)
    IN  <<swap(x, i, d[1]), d[2]>>

\* The iterations i = hi, hi - 1, ..., lo of random.shuffle's loop, one
\* after the other (the range is halved to keep the evaluation shallow;
\* every step draws, so the first half has always advanced the generator
\* when the second half starts).  <<the list, the generator afterwards>>
RECURSIVE shuffle_range(_, _, _, _)
shuffle_range(x, g, hi, lo) ==
    IF hi < lo THEN <<x, g>>
    ELSE IF hi = lo THEN shuffle_step(x, hi, g)
    ELSE LET mid == (hi + lo) \div 2
             a == shuffle_range(x, g, hi, mid + 1)
         IN  IF a[2].pos > g.pos THEN shuffle_range(a[1], a[2], mid, lo)
             ELSE a

\* random.shuffle(x): for i in reversed(range(1, len(x))): one step each.
random_shuffle(x, g) == shuffle_range(x, g, Len(x) - 1, 1)

(***************************************************************************)
(* The pixel mapping (encode, lines 82-95; _decode_image, lines 204-215)   *)
(***************************************************************************)
\* list(range(n))
range(n) == [k \in 1..n |-> k - 1]

\* A variant of raster_coords with the loops exchanged:
\* [(x, y) for x in range(width) for y in range(height)]
raster_coords_column_major(width, height) ==
    [k \in 1..(width * height) |-> <<(k - 1) \div height, (k - 1) % height>>]

\* [(x, y) for y in range(height) for x in range(width)], row by row
RECURSIVE raster_rows(_, _, _)
raster_rows(width, height, y) ==
    IF y >= height THEN <<>>
    ELSE [k \in 1..width |-> <<k - 1, y>>] \o raster_rows(width, height, y + 1)

raster_coords(width, height) == raster_rows(width, height, 0)

\* [(i % width, i // width) for i in pixels]
coords_of(pixels, width) ==
    [k \in 1..Len(pixels) |-> <<pixels[k] % width, pixels[k] \div width>>]

\* The password branch run without interruption: seed, shuffle, map.
\* <<pixel_coords, the generator afterwards>>
shuffled_coords(width, height, password) ==
    LET seed == sha256_seed(str_encode(password))
        s == random_shuffle(range(width * height), random_seed(seed))
    IN  <<coords_of(s[1], width), s[2]>>

\* encode's pixel mapping: <<pixel_coords, the generator afterwards>>
encode_pixel_coords(width, height, password, g) ==
    IF Truthy(password) THEN shuffled_coords(width, height, password)
    ELSE <<raster_coords(width, height), g>>

\* A variant of decode_pixel_coords that ignores the password.
decode_pixel_coords_raster(width, height, password, g) ==
    <<raster_coords(width, height), g>>

\* _decode_image's pixel mapping: <<pixel_coords, the generator afterwards>>
decode_pixel_coords(width, height, password, g) ==
    IF Truthy(password) THEN shuffled_coords(width, height, password)
    ELSE <<raster_coords(width, height), g>>

(***************************************************************************)
(* encode: framing and embedding                                           *)
(***************************************************************************)
\* message_bytes = self.marker + struct.pack("<I", len(message_data))
\*                 + message_data
frame_of(message_data) ==
    marker \o pack_le32(Len(message_data)) \o message_data

\* A variant of bits_of that emits bit 7 of each byte first.
bits_of_msb_first(data) ==
    [k \in 1..(8 * Len(data)) |->
        (data[((k - 1) \div 8) + 1] \div (2 ^ (7 - ((k - 1) % 8)))) % 2]

\* for b in message_bytes: for i in range(8): bits.append((b >> i) & 1)
bits_of(data) ==
    [k \in 1..(8 * Len(data)) |->
        (data[((k - 1) \div 8) + 1] \div (2 ^ ((k - 1) % 8))) % 2]

\* A variant of embed_pixel that fills the channels left over in the last
\* pixel with 0 bits.
embed_pixel_pad(st, coord, bits) ==
    IF st.bit_index >= Len(bits) THEN st
    ELSE
      LET x == coord[1]
          y == coord[2]
          px == st.arr[y + 1][x + 1]
          bit(i) == IF i < Len(bits) THEN bits[i + 1] ELSE 0
          i0 == st.bit_index
      IN  [arr |-> [st.arr EXCEPT ![y + 1][x + 1] =
                       <<embed_bit(px[1], bit(i0)), embed_bit(px[2], bit(i0 + 1)),
                         embed_bit(px[3], bit(i0 + 2))>>],
           bit_index |-> IF i0 + 3 < Len(bits) THEN i0 + 3 ELSE Len(bits)]

\* One iteration of the embedding loop, at pixel (x, y), on
\* [arr: stego_array, bit_index]: nothing once the bits are used up (break),
\* else up to three bits go into r, g, b and the pixel is written back.
embed_pixel(st, coord, bits) ==
    IF st.bit_index >= Len(bits) THEN st
    ELSE
      LET x == coord[1]
          y == coord[2]
          px == st.arr[y + 1][x + 1]
          i0 == st.bit_index
          e1 == i0 < Len(bits)
          r == IF e1 THEN embed_bit(px[1], bits[i0 + 1]) ELSE px[1]
          i1 == IF e1 THEN i0 + 1 ELSE i0
          e2 == i1 < Len(bits)
          g == IF e2 THEN embed_bit(px[2], bits[i1 + 1]) ELSE px[2]
          i2 == IF e2 THEN i1 + 1 ELSE i1
          e3 == i2 < Len(bits)
          b == IF e3 THEN embed_bit(px[3], bits[i2 + 1]) ELSE px[3]
          i3 == IF e3 THEN i2 + 1 ELSE i2
      IN  [arr |-> [st.arr EXCEPT ![y + 1][x + 1] = <<r, g, b>>],
           bit_index |-> i3]

\* The iterations of the embedding loop over coords[lo..hi], one after the
\* other (the range is halved to keep the evaluation shallow).
RECURSIVE embed_range(_, _, _, _, _)
embed_range(st, coords, bits, lo, hi) ==
    IF lo > hi THEN st
    ELSE IF lo = hi THEN embed_pixel(st, coords[lo], bits)
    ELSE LET mid == (lo + hi) \div 2
             a == embed_range(st, coords, bits, lo, mid)
         IN  IF a.bit_index >= Len(bits) THEN a
             ELSE embed_range(a, coords, bits, mid + 1, hi)

\* for x, y in pixel_coords: ... (lines 106-129): the array afterwards.
embed_loop(arr, coords, bits) ==
    embed_range([arr |-> arr, bit_index |-> 0], coords, bits,
                1, Len(coords)).arr

(***************************************************************************)
(* _decode_image: scanning and byte assembly                               *)
(***************************************************************************)
\* One iteration of a scanning loop (header scan, body scan), at pixel
\* (x, y), on [bits: extracted_bits, reads]: nothing once needed bits are
\* held (break), else the three LSBs of the pixel are appended.  reads lists
\* the coordinates read so far.
scan_pixel(st, arr, coord, needed) ==
    IF Len(st.bits) >= needed THEN st
    ELSE
      LET x == coord[1]
          y == coord[2]
          px == arr[y + 1][x + 1]
      IN  [bits |-> st.bits \o <<extract_bit(px[1]), extract_bit(px[2]),
                                 extract_bit(px[3])>>,
           reads |-> Append(st.reads, coord)]

\* The iterations of a scanning loop over coords[lo..hi], one after the
\* other (the range is halved to keep the evaluation shallow).
RECURSIVE scan_range(_, _, _, _, _, _)
scan_range(st, arr, coords, needed, lo, hi) ==
    IF lo > hi THEN st
    ELSE IF lo = hi THEN scan_pixel(st, arr, coords[lo], needed)
    ELSE LET mid == (lo + hi) \div 2
             a == scan_range(st, arr, coords, needed, lo, mid)
         IN  IF Len(a.bits) >= needed THEN a
             ELSE scan_range(a, arr, coords, needed, mid + 1, hi)

\* for (x, y) in pixel_coords[start_idx:]: ... with extracted_bits = bits
scan_loop(arr, coords, start_idx, bits, needed, reads) ==
    scan_range([bits |-> bits, reads |-> reads], arr, coords, needed,
               start_idx + 1, Len(coords))

\* byte = 0; for j in range(8): if bits[i + j]: byte |= (1 << j)
byte_at(bits, i) ==
    bits[i + 1] + 2 * bits[i + 2] + 4 * bits[i + 3] + 8 * bits[i + 4]
    + 16 * bits[i + 5] + 32 * bits[i + 6] + 64 * bits[i + 7]
    + 128 * bits[i + 8]

\* for i in range(0, nbits, 8): if i + 8 <= len(bits): append the byte at i
bits_to_bytes(bits, nbits) ==
    LET starts == {i \in 0..(nbits - 1) : i % 8 = 0 /\ i + 8 <= Len(bits)}
    IN  [q \in 1..Cardinality(starts) |-> byte_at(bits, 8 * (q - 1))]

\* A variant of text_of without the base64 text for bytes that are not
\* UTF-8.
text_of_strict(message_data) ==
    IF bytes_decode(message_data) # UnicodeDecodeError
    THEN bytes_decode(message_data)
    ELSE None

\* The text returned for the extracted message bytes: UTF-8 text, or the
\* base64 text of the bytes.
text_of(message_data) ==
    IF bytes_decode(message_data) # UnicodeDecodeError
    THEN bytes_decode(message_data)
    ELSE b64encode(message_data)

(***************************************************************************)
(* The inputs of the model                                                 *)
(***************************************************************************)
\* (width, height) of the carrier images: 3, 18, 60, 90, 96, 120 and 264
\* channel bits (a frame needs at least 88; 96 and 120 are filled exactly by
\* messages of 1 and 4 bytes).
Dims == {<<1, 1>>, <<3, 2>>, <<5, 4>>, <<10, 3>>, <<8, 4>>, <<5, 8>>, <<11, 8>>}

\* Channel c of pixel i of the carrier pattern kind: pattern 1 is all 255.
base_pixel(kind, i, c) == (255 * kind + (kind - 1) * (7 * i + 13 * c)) % 256

base_image(kind, width, height) ==
    [y \in 1..height |-> [x \in 1..width |->
        LET i == (y - 1) * width + (x - 1)
        IN  <<base_pixel(kind, i, 0), base_pixel(kind, i, 1),
              base_pixel(kind, i, 2)>>]]

\* An image file whose channel LSBs along coords already hold the bits of
\* data (as far as they fit), as left there by any LSB tool.
with_lsbs(arr, coords, data) ==
    LET bits == bits_of(data)
        at(x, y) ==
            IF \E k \in 1..Len(coords) : coords[k] = <<x, y>>
            THEN CHOOSE k \in 1..Len(coords) : coords[k] = <<x, y>>
            ELSE 0
        put(v, slot) ==
            IF 0 <= slot /\ slot < Len(bits)
            THEN (v - (v % 2)) + bits[slot + 1]
            ELSE v
    IN  [y \in 1..Len(arr) |-> [x \in 1..Len(arr[1]) |->
            LET s == 3 * (at(x - 1, y - 1) - 1)
                px == arr[y][x]
            IN  <<put(px[1], s), put(px[2], s + 1), put(px[3], s + 2)>>]]

\* What the LSBs of an input image may already spell: nothing, a frame of
\* "i", a frame of length 0, a frame of length 2^31 - 1, a frame with the
\* non-UTF-8 payload FF, a frame with the non-UTF-8 payload E9 68, a frame
\* declaring 4 bytes followed by "h", and a
\* frame of "i" under the other marker 'SSSTEGN'.
PriorData ==
    { <<>>,
      marker \o <<1, 0, 0, 0>> \o <<105>>,
      marker \o <<0, 0, 0, 0>>,
      marker \o <<255, 255, 255, 127>>,
      marker \o <<1, 0, 0, 0>> \o <<255>>,
      marker \o <<2, 0, 0, 0>> \o <<233, 104>>,
      marker \o <<4, 0, 0, 0>> \o <<104>>,
      <<83, 83, 83, 84, 69, 71, 78>> \o <<1, 0, 0, 0>> \o <<105>> }

\* Prior content with the pixel order it lies along (None: raster).
Priors ==
    {[data |-> d, password |-> None] : d \in PriorData}
    \cup {[data |-> marker \o <<1, 0, 0, 0>> \o <<105>>, password |-> pw_noos]}

\* The input image files.
Images ==
    {with_lsbs(base_image(kind, d[1], d[2]),
               encode_pixel_coords(d[1], d[2], pr.password, rng_unseeded)[1],
               pr.data) :
        kind \in 1..NumBase, d \in Dims, pr \in Priors}

\* The characters of messages: "h" and "é" (two bytes in UTF-8).
Chars == {104, 233}

\* The messages handed to encode.
Messages == UNION {[1..n -> Chars] : n \in 0..MaxMsgLen}

\* The passwords handed to encode and decode: absent, empty, "b", "noos".
Passwords == {None, <<>>, pw_b, pw_noos}

\* No image (no file written, no array loaded).
NoImage == <<>>

(***************************************************************************)
(* State                                                                   *)
(***************************************************************************)
VARIABLES
    pc,              \* where the caller is in encode / decode
    image,           \* the input image file
    output,          \* the image file encode saved, or NoImage
    message,         \* encode's arguments
    password,
    message_bytes,   \* encode's locals
    pixel_coords,
    stego_array,
    raised,          \* <<>>, or <<required_bits, available_bits>> of the
                     \* ValueError encode raised
    dec_source,      \* "none", or the file decode was given: "input", "output"
    dec_password,    \* decode's argument
    dec_array,       \* decode's img_array
    attempt,         \* number of _decode_image calls started
    att_password,    \* _decode_image's arguments and locals
    dec_coords,
    extracted_bits,
    header_bytes,
    message_length,
    reads,           \* coordinates read by the call, in order
    att_result,      \* what the call returned
    att_error,       \* whether the call returned through its except clause
    first_result,    \* what the first call returned
    result,          \* what decode returned
    rng,             \* the random module's generator
    threads,         \* concurrent callers inside the pixel mapping: thread ->
                     \* [pc, width, height, password, pixels, i, pixel_coords]
    gui              \* the SteganographyApp window: its operation selection,
                     \* widgets, worker thread, pending callbacks and what
                     \* it last showed

enc_vars == <<message, password, message_bytes, pixel_coords, stego_array,
              raised, output>>

att_vars == <<att_password, dec_coords, extracted_bits, header_bytes,
              message_length, reads, att_result, att_error>>

dec_vars == <<dec_source, dec_password, dec_array, attempt, first_result,
              result>>

\* What a single caller's encode and decode work on.
call_vars == <<pc, image, enc_vars, dec_vars, att_vars>>

vars == <<call_vars, rng, threads, gui>>

\* img_array.shape
height_of(arr) == Len(arr)

width_of(arr) == Len(arr[1])

\* No window: encode and decode are called directly.
gui_closed ==
    [operation |-> "none", widgets |-> "none", workers |-> 0,
     target |-> "none", after |-> <<>>, shown |-> "none",
     shown_result |-> "none", shown_for |-> "none", started |-> 0]

Init ==
    /\ pc = "idle"
    /\ image \in Images
    /\ output = NoImage
    /\ message = None
    /\ password = None
    /\ message_bytes = <<>>
    /\ pixel_coords = <<>>
    /\ stego_array = NoImage
    /\ raised = <<>>
    /\ dec_source = "none"
    /\ dec_password = None
    /\ dec_array = NoImage
    /\ attempt = 0
    /\ att_password = None
    /\ dec_coords = <<>>
    /\ extracted_bits = <<>>
    /\ header_bytes = <<>>
    /\ message_length = 0
    /\ reads = <<>>
    /\ att_result = None
    /\ att_error = FALSE
    /\ first_result = None
    /\ result = None
    /\ rng = rng_unseeded
    /\ threads = <<>>
    /\ gui = gui_closed

(***************************************************************************)
(* encode(image_path, message, password)                                   *)
(***************************************************************************)
\* The call: the image is opened and loaded (lines 56-65).
EncodeCall(m, p) ==
    /\ pc = "idle"
    /\ message' = m
    /\ password' = p
    /\ pc' = "enc_check"
    /\ UNCHANGED <<gui, threads, image, message_bytes, pixel_coords, stego_array, raised,
                   output, dec_vars, att_vars, rng>>

\* A variant of too_small that also refuses an exact fit.
too_small_inclusive(data, arr) ==
    Len(data) * 8 >= width_of(arr) * height_of(arr) * 3

\* required_bits > available_bits
too_small(data, arr) ==
    Len(data) * 8 > width_of(arr) * height_of(arr) * 3

\* A variant of EncodeCheck that copies the array and embeds before it
\* checks the capacity.
EncodeCheck_embed_first ==
    /\ pc = "enc_check"
    /\ message_bytes' = frame_of(str_encode(message))
    /\ stego_array' = embed_loop(image,
                                 raster_coords(width_of(image), height_of(image)),
                                 bits_of(message_bytes'))
    /\ IF Len(message_bytes') * 8 > width_of(image) * height_of(image) * 3
       THEN /\ raised' = <<Len(message_bytes') * 8,
                           width_of(image) * height_of(image) * 3>>
            /\ pc' = "enc_raised"
       ELSE /\ raised' = <<>>
            /\ pc' = "enc_coords"
    /\ UNCHANGED <<gui, threads, image, message, password, pixel_coords, output, dec_vars,
                   att_vars, rng>>

\* Framing and the capacity check (lines 67-77).
EncodeCheck ==
    /\ pc = "enc_check"
    /\ message_bytes' = frame_of(str_encode(message))
    /\ IF too_small(message_bytes', image)
       THEN /\ raised' = <<Len(message_bytes') * 8,
                           width_of(image) * height_of(image) * 3>>
            /\ pc' = "enc_raised"
       ELSE /\ raised' = <<>>
            /\ pc' = "enc_coords"
    /\ UNCHANGED <<gui, threads, image, message, password, pixel_coords, stego_array,
                   output, dec_vars, att_vars, rng>>

\* The pixel mapping and the copy of the array (lines 82-98).
EncodeCoords ==
    /\ pc = "enc_coords"
    /\ LET c == encode_pixel_coords(width_of(image), height_of(image),
                                    password, rng)
       IN  /\ pixel_coords' = c[1]
           /\ rng' = c[2]
    /\ stego_array' = image
    /\ pc' = "enc_embed"
    /\ UNCHANGED <<gui, threads, image, message, password, message_bytes, raised, output,
                   dec_vars, att_vars>>

\* The bits and the embedding loop (lines 100-129).
EncodeEmbed ==
    /\ pc = "enc_embed"
    /\ stego_array' = embed_loop(stego_array, pixel_coords,
                                 bits_of(message_bytes))
    /\ pc' = "enc_save"
    /\ UNCHANGED <<gui, threads, image, message, password, message_bytes, pixel_coords,
                   raised, output, dec_vars, att_vars, rng>>

\* The stego image is saved as PNG and its path returned (lines 131-144).
EncodeSave ==
    /\ pc = "enc_save"
    /\ output' = stego_array
    /\ pc' = "enc_done"
    /\ UNCHANGED <<gui, threads, image, message, password, message_bytes, pixel_coords,
                   stego_array, raised, dec_vars, att_vars, rng>>

(***************************************************************************)
(* decode(image_path, password)                                            *)
(***************************************************************************)
\* The locals of a _decode_image call before it runs.
AttemptReset ==
    /\ dec_coords' = <<>>
    /\ extracted_bits' = <<>>
    /\ header_bytes' = <<>>
    /\ message_length' = 0
    /\ reads' = <<>>
    /\ att_result' = None
    /\ att_error' = FALSE

\* The call, on the input file or on the file encode saved: the image is
\* opened and loaded, and _decode_image is called with the password
\* (lines 157-171).
DecodeCall(src, q) ==
    /\ \/ pc = "idle" /\ src = "input"
       \/ pc = "enc_done" /\ src = "output"
    /\ dec_source' = src
    /\ dec_password' = q
    /\ dec_array' = IF src = "input" THEN image ELSE output
    /\ attempt' = 1
    /\ att_password' = q
    /\ AttemptReset
    /\ pc' = "dec_coords"
    /\ UNCHANGED <<gui, threads, image, enc_vars, first_result, result, rng>>

\* _decode_image: the pixel mapping (lines 204-215).
DecodeCoords ==
    /\ pc = "dec_coords"
    /\ LET c == decode_pixel_coords(width_of(dec_array), height_of(dec_array),
                                    att_password, rng)
       IN  /\ dec_coords' = c[1]
           /\ rng' = c[2]
    /\ pc' = "dec_header"
    /\ UNCHANGED <<gui, threads, image, enc_vars, dec_vars, att_password, extracted_bits,
                   header_bytes, message_length, reads, att_result, att_error>>

\* _decode_image: the header scan and the header bytes (lines 217-245).
HeaderScan ==
    /\ pc = "dec_header"
    /\ LET s == scan_loop(dec_array, dec_coords, 0, <<>>, header_size * 8,
                          <<>>)
       IN  /\ extracted_bits' = s.bits
           /\ reads' = s.reads
           /\ header_bytes' = bits_to_bytes(s.bits, header_size * 8)
    /\ pc' = "dec_marker"
    /\ UNCHANGED <<gui, threads, image, enc_vars, dec_vars, att_password, dec_coords,
                   message_length, att_result, att_error, rng>>

\* A variant of marker_found that compares the first three bytes only.
marker_found_prefix(hb) ==
    Len(hb) >= marker_size /\ SubSeq(hb, 1, 3) = SubSeq(marker, 1, 3)

\* A variant of marker_found that compares one byte less.
marker_found_short(hb) ==
    Len(hb) >= marker_size
    /\ SubSeq(hb, 1, marker_size - 1) = SubSeq(marker, 1, marker_size - 1)

\* len(header_bytes) >= marker_size and header_bytes[:marker_size] == marker
marker_found(hb) ==
    Len(hb) >= marker_size /\ SubSeq(hb, 1, marker_size) = marker

\* A variant of invalid_length that lets the length 0 pass.
invalid_length_zero_ok(n, arr) == n < 0 \/ n > width_of(arr) * height_of(arr)

\* message_length <= 0 or message_length > width * height
invalid_length(n, arr) == n <= 0 \/ n > width_of(arr) * height_of(arr)

\* _decode_image: the marker check and the length validation (lines
\* 247-257).  struct.unpack raises on a slice shorter than 4 bytes: the
\* exception leaves the try block.
MarkerCheck ==
    /\ pc = "dec_marker"
    /\ IF ~marker_found(header_bytes)
       THEN /\ att_result' = None
            /\ pc' = "dec_returned"
            /\ UNCHANGED <<message_length, att_error>>
       ELSE IF Len(header_bytes) < marker_size + 4
       THEN /\ att_error' = TRUE
            /\ pc' = "dec_except"
            /\ UNCHANGED <<message_length, att_result>>
       ELSE /\ message_length' =
                 unpack_le32(SubSeq(header_bytes, marker_size + 1,
                                    marker_size + 4))
            /\ IF invalid_length(message_length', dec_array)
               THEN /\ att_result' = None
                    /\ pc' = "dec_returned"
               ELSE /\ att_result' = att_result
                    /\ pc' = "dec_body"
            /\ UNCHANGED att_error
    /\ UNCHANGED <<gui, threads, image, enc_vars, dec_vars, att_password, dec_coords,
                   extracted_bits, header_bytes, reads, rng>>

\* A variant of ExceptClause that lets the exception go on to the caller
\* of decode.
ExceptClause_reraise ==
    /\ pc = "dec_except"
    /\ pc' = "dec_raised"
    /\ UNCHANGED <<gui, threads, image, enc_vars, dec_vars, att_vars, rng>>

\* _decode_image: except Exception: return None (lines 309-311).
ExceptClause ==
    /\ pc = "dec_except"
    /\ att_result' = None
    /\ pc' = "dec_returned"
    /\ UNCHANGED <<gui, threads, image, enc_vars, dec_vars, att_password, dec_coords,
                   extracted_bits, header_bytes, message_length, reads,
                   att_error, rng>>

\* A variant of BodyScan that resumes at the pixel holding the last header
\* bit (88 // 3) instead of the first pixel not read yet.
BodyScan_from_header_bits ==
    /\ pc = "dec_body"
    /\ LET total_bits_needed == (header_size + message_length) * 8
           start_idx == (header_size * 8) \div 3
           s == scan_loop(dec_array, dec_coords, start_idx,
                          extracted_bits, total_bits_needed, reads)
       IN  IF Len(extracted_bits) < total_bits_needed
           THEN /\ extracted_bits' = s.bits
                /\ reads' = s.reads
           ELSE UNCHANGED <<extracted_bits, reads>>
    /\ pc' = "dec_extract"
    /\ UNCHANGED <<gui, threads, image, enc_vars, dec_vars, att_password, dec_coords,
                   header_bytes, message_length, att_result, att_error, rng>>

\* _decode_image: the body scan (lines 259-278).
BodyScan ==
    /\ pc = "dec_body"
    /\ LET total_bits_needed == (header_size + message_length) * 8
           start_idx == Len(extracted_bits) \div 3
           s == scan_loop(dec_array, dec_coords, start_idx,
                          extracted_bits, total_bits_needed, reads)
       IN  IF Len(extracted_bits) < total_bits_needed
           THEN /\ extracted_bits' = s.bits
                /\ reads' = s.reads
           ELSE UNCHANGED <<extracted_bits, reads>>
    /\ pc' = "dec_extract"
    /\ UNCHANGED <<gui, threads, image, enc_vars, dec_vars, att_password, dec_coords,
                   header_bytes, message_length, att_result, att_error, rng>>

\* _decode_image: the bytes and the message text (lines 280-307).
Extract ==
    /\ pc = "dec_extract"
    /\ LET total_bytes_needed == header_size + message_length
           all_bytes == bits_to_bytes(extracted_bits, total_bytes_needed * 8)
       IN  att_result' =
               IF Len(all_bytes) >= total_bytes_needed
               THEN text_of(SubSeq(all_bytes, header_size + 1,
                                   header_size + message_length))
               ELSE None
    /\ pc' = "dec_returned"
    /\ UNCHANGED <<gui, threads, image, enc_vars, dec_vars, att_password, dec_coords,
                   extracted_bits, header_bytes, message_length, reads,
                   att_error, rng>>

\* A variant of retries without the second call.
retries_never(res, n, q) == FALSE

\* A variant of retries that retries without a password too.
retries_without_password(res, n, q) == ~Truthy(res) /\ n = 1

\* decode: whether a second _decode_image call follows the call that just
\* returned (lines 172-180).
retries(res, n, q) == ~Truthy(res) /\ n = 1 /\ Truthy(q)

\* decode: _decode_image returned something false after the call with the
\* password: it is called again without password (lines 177-180).
DecodeRetry ==
    /\ pc = "dec_returned"
    /\ retries(att_result, attempt, dec_password)
    /\ first_result' = att_result
    /\ attempt' = 2
    /\ att_password' = None
    /\ AttemptReset
    /\ pc' = "dec_coords"
    /\ UNCHANGED <<gui, threads, image, enc_vars, dec_source, dec_password, dec_array,
                   result, rng>>

\* decode returns: the result of the call if it is true, else None
\* (lines 172-175, 181-188).
DecodeReturn ==
    /\ pc = "dec_returned"
    /\ ~retries(att_result, attempt, dec_password)
    /\ result' = IF Truthy(att_result) THEN att_result ELSE None
    /\ first_result' = IF attempt = 1 THEN att_result ELSE first_result
    /\ pc' = "dec_done"
    /\ UNCHANGED <<gui, threads, image, enc_vars, dec_source, dec_password, dec_array,
                   attempt, att_vars, rng>>

Next ==
    \/ \E m \in Messages, p \in Passwords : EncodeCall(m, p)
    \/ EncodeCheck
    \/ EncodeCoords
    \/ EncodeEmbed
    \/ EncodeSave
    \/ \E src \in {"input", "output"}, q \in Passwords : DecodeCall(src, q)
    \/ DecodeCoords
    \/ HeaderScan
    \/ MarkerCheck
    \/ ExceptClause
    \/ BodyScan
    \/ Extract
    \/ DecodeRetry
    \/ DecodeReturn

Spec == Init /\ [][Next]_vars

(***************************************************************************)
(* Concurrent callers.  encode and decode may be called from several       *)
(* threads (the GUI runs them in a worker thread); every call with a       *)
(* password goes through random.seed and random.shuffle of the one         *)
(* process-wide generator (lines 86-92, 207-212).  The interpreter may     *)
(* switch threads between any two calls into the generator, so each call   *)
(* (seed, one draw and swap of the shuffle) is one step.                   *)
(***************************************************************************)
\* Number of threads inside the pixel mapping.
NumThreads == 3

Threads == 1..NumThreads

\* (width, height) of the images of the concurrent calls.
ThreadDims == {<<2, 2>>, <<3, 1>>}

ThreadPasswords == {pw_b, pw_noos}

InitThreads ==
    /\ pc = "concurrent"
    /\ image = NoImage
    /\ output = NoImage
    /\ message = None
    /\ password = None
    /\ message_bytes = <<>>
    /\ pixel_coords = <<>>
    /\ stego_array = NoImage
    /\ raised = <<>>
    /\ dec_source = "none"
    /\ dec_password = None
    /\ dec_array = NoImage
    /\ attempt = 0
    /\ att_password = None
    /\ dec_coords = <<>>
    /\ extracted_bits = <<>>
    /\ header_bytes = <<>>
    /\ message_length = 0
    /\ reads = <<>>
    /\ att_result = None
    /\ att_error = FALSE
    /\ first_result = None
    /\ result = None
    /\ rng = rng_unseeded
    /\ gui = gui_closed
    /\ threads \in [Threads ->
          {[pc |-> "seed", width |-> d[1], height |-> d[2], password |-> p,
            pixels |-> <<>>, i |-> 0, pixel_coords |-> <<>>] :
              d \in ThreadDims, p \in ThreadPasswords}]

\* seed = int.from_bytes(...); random.seed(seed);
\* pixels = list(range(width * height)); the shuffle starts at the last index
ThreadSeed(t) ==
    /\ threads[t].pc = "seed"
    /\ rng' = random_seed(sha256_seed(str_encode(threads[t].password)))
    /\ threads' = [threads EXCEPT
          ![t].pc = "shuffle",
          ![t].pixels = range(threads[t].width * threads[t].height),
          ![t].i = threads[t].width * threads[t].height - 1]
    /\ UNCHANGED <<call_vars, gui>>

\* One iteration of random.shuffle(pixels), drawing from the generator as
\* it is now.
ThreadShuffleStep(t) ==
    /\ threads[t].pc = "shuffle"
    /\ threads[t].i >= 1
    /\ LET s == shuffle_step(threads[t].pixels, threads[t].i, rng)
       IN  /\ threads' = [threads EXCEPT ![t].pixels = s[1],
                                         ![t].i = threads[t].i - 1]
           /\ rng' = s[2]
    /\ UNCHANGED <<call_vars, gui>>

\* pixel_coords = [(i % width, i // width) for i in pixels]
ThreadMap(t) ==
    /\ threads[t].pc = "shuffle"
    /\ threads[t].i < 1
    /\ threads' = [threads EXCEPT
          ![t].pc = "done",
          ![t].pixel_coords = coords_of(threads[t].pixels, threads[t].width)]
    /\ UNCHANGED <<call_vars, rng, gui>>

NextThreads ==
    \E t \in Threads : ThreadSeed(t) \/ ThreadShuffleStep(t) \/ ThreadMap(t)

SpecThreads == InitThreads /\ [][NextThreads]_vars

(***************************************************************************)
(* The window (ss_steganography.py).  The main thread runs the callbacks   *)
(* of the widgets and of root.after one at a time; _start_operation starts *)
(* a worker thread that runs encode or decode and schedules                *)
(* _operation_complete or _operation_error.  The results of the worker are *)
(* "path" (encode's output path), "message" (a decoded message) and "none" *)
(* (decode's None).                                                        *)
(***************************************************************************)
\* Number of operations the user starts.
MaxOperations == 3

Operations == {"encode", "decode"}

\* What target_func can return: _encode_image the output path,
\* _decode_image a message or None.
results_of(target) ==
    IF target = "encode" THEN {"path"} ELSE {"message", "none"}

InitGui ==
    /\ pc = "window"
    /\ image = NoImage
    /\ output = NoImage
    /\ message = None
    /\ password = None
    /\ message_bytes = <<>>
    /\ pixel_coords = <<>>
    /\ stego_array = NoImage
    /\ raised = <<>>
    /\ dec_source = "none"
    /\ dec_password = None
    /\ dec_array = NoImage
    /\ attempt = 0
    /\ att_password = None
    /\ dec_coords = <<>>
    /\ extracted_bits = <<>>
    /\ header_bytes = <<>>
    /\ message_length = 0
    /\ reads = <<>>
    /\ att_result = None
    /\ att_error = FALSE
    /\ first_result = None
    /\ result = None
    /\ rng = rng_unseeded
    /\ threads = <<>>
    /\ gui = [operation |-> "encode", widgets |-> "normal", workers |-> 0,
              target |-> "none", after |-> <<>>, shown |-> "none",
              shown_result |-> "none", shown_for |-> "none", started |-> 0]

\* The user clicks a radio button of the operation selection; the two
\* buttons are not among the widgets _set_ui_state disables (lines
\* 137-142, 381-387).
SelectOperation(op) ==
    /\ gui.operation # op
    /\ gui' = [gui EXCEPT !.operation = op]
    /\ UNCHANGED <<call_vars, rng, threads>>

\* The user clicks the action button (enabled only in state "normal"):
\* _process_action with inputs that fail its validation shows an error and
\* returns, else _start_operation disables the widgets and starts the
\* worker thread with the function of the selected operation.
ProcessAction(valid) ==
    /\ gui.widgets = "normal"
    /\ gui.started < MaxOperations
    /\ IF valid
       THEN gui' = [gui EXCEPT !.widgets = "disabled",
                               !.workers = @ + 1,
                               !.target = gui.operation,
                               !.started = @ + 1]
       ELSE gui' = [gui EXCEPT !.shown = "input_error",
                               !.shown_result = "none",
                               !.shown_for = "none"]
    /\ UNCHANGED <<call_vars, rng, threads>>

\* The worker thread: _run_operation calls target_func and schedules
\* _operation_complete with its result, or _operation_error if it raised;
\* then the thread ends.
RunOperation(r) ==
    /\ gui.workers > 0
    /\ r \in results_of(gui.target) \cup {"exception"}
    /\ gui' = [gui EXCEPT
          !.workers = @ - 1,
          !.after = Append(@, [callback |-> IF r = "exception"
                                            THEN "_operation_error"
                                            ELSE "_operation_complete",
                               result |-> r,
                               target |-> gui.target])]
    /\ UNCHANGED <<call_vars, rng, threads>>

\* The main thread runs a scheduled _operation_complete(result): the
\* widgets are enabled and the result is shown according to
\* self.operation.get().
OperationComplete ==
    /\ gui.after # <<>>
    /\ Head(gui.after).callback = "_operation_complete"
    /\ LET r == Head(gui.after).result
       IN  gui' = [gui EXCEPT
              !.after = Tail(@),
              !.widgets = "normal",
              !.shown = IF gui.operation = "encode" THEN "encode_success"
                        ELSE IF r # "none" THEN "decoded_message"
                        ELSE "decode_failed",
              !.shown_result = r,
              !.shown_for = Head(gui.after).target]
    /\ UNCHANGED <<call_vars, rng, threads>>

\* The main thread runs a scheduled _operation_error(error_msg).
OperationError ==
    /\ gui.after # <<>>
    /\ Head(gui.after).callback = "_operation_error"
    /\ gui' = [gui EXCEPT !.after = Tail(@),
                          !.widgets = "normal",
                          !.shown = "operation_failed",
                          !.shown_result = "exception",
                          !.shown_for = Head(gui.after).target]
    /\ UNCHANGED <<call_vars, rng, threads>>

NextGui ==
    \/ \E op \in Operations : SelectOperation(op)
    \/ \E valid \in BOOLEAN : ProcessAction(valid)
    \/ \E r \in {"path", "message", "none", "exception"} : RunOperation(r)
    \/ OperationComplete
    \/ OperationError

SpecGui == InitGui /\ [][NextGui]_vars

(***************************************************************************)
(* Properties                                                              *)
(***************************************************************************)
\* The LSB of channel slot s (0-based; slot 3k + c is channel c of the k-th
\* pixel of coords) of an image.
lsb_at(arr, coords, s) ==
    arr[coords[(s \div 3) + 1][2] + 1][coords[(s \div 3) + 1][1] + 1]
       [(s % 3) + 1] % 2

\* The q-th byte (from 1) of the frame 'SSSTEGO' || length, 4 bytes
\* little-endian || payload.
frame_byte(payload, q) ==
    IF q <= 7 THEN <<83, 83, 83, 84, 69, 71, 79>>[q]
    ELSE IF q <= 11 THEN (Len(payload) \div (256 ^ (q - 8))) % 256
    ELSE payload[q - 11]

\* The channel LSBs of the image along coords start with the 7 marker
\* bytes, bit 0 of each byte first.
spells_marker(arr, coords) ==
    /\ 3 * Len(coords) >= 56
    /\ \A s \in 0..55 :
          lsb_at(arr, coords, s) = (frame_byte(<<>>, (s \div 8) + 1) \div (2 ^ (s % 8))) % 2

\* decode has returned for the image encode saved.
DecodedOutput == pc = "dec_done" /\ dec_source = "output"

\* decode has returned for an input image.
DecodedInput == pc = "dec_done" /\ dec_source = "input"

\* C1 as stated: decode(encode(image, message, p), p) returns message for
\* every message that fits and every password p, absent included.
C1_RoundTripAnyMessage ==
    (DecodedOutput /\ dec_password = password) => result = message

\* C1, amended: decode(encode(image, message, p), p) returns message for
\* every non-empty message that fits and every password p, absent included.
C1_RoundTrip ==
    (DecodedOutput /\ dec_password = password /\ message # <<>>)
        => result = message

C1_Witness ==
    /\ DecodedOutput
    /\ password = pw_noos
    /\ dec_password = pw_noos
    /\ message = <<104, 233>>
    /\ result = message

\* C2 as stated: decode(encode(image, message, None), q) returns message for
\* every q, from the no-password fallback call when q is a non-empty
\* password.
C2_NoPasswordAnyDecode ==
    (DecodedOutput /\ password = None)
        => /\ result = message
           /\ Truthy(dec_password) => (attempt = 2 /\ att_password = None)

\* C2 as stated, for non-empty messages only: it fails as well, on an image
\* that already carried a frame along the pixel order of q.
C2_NonEmptyAnyDecode ==
    (DecodedOutput /\ password = None /\ message # <<>>) => result = message

\* C2, amended: for a non-empty message, decode(encode(image, message,
\* None), q) returns message when q is absent or empty, and when q is a
\* non-empty password whose own call found no message; in that case the
\* result comes from the no-password fallback call.
C2_NoPasswordCompat ==
    (/\ DecodedOutput
     /\ password = None
     /\ message # <<>>
     /\ Truthy(dec_password) => ~Truthy(first_result))
        => /\ result = message
           /\ Truthy(dec_password) => (attempt = 2 /\ att_password = None)

C2_Witness ==
    /\ DecodedOutput
    /\ password = None
    /\ dec_password = pw_b
    /\ message = <<104>>
    /\ attempt = 2
    /\ result = message

\* The byte the channel LSBs of the image spell along coords at byte
\* position q (from 1), bit 0 first.
lsb_byte(arr, coords, q) ==
    LET b(j) == lsb_at(arr, coords, 8 * (q - 1) + j)
    IN  b(0) + 2 * b(1) + 4 * b(2) + 8 * b(3)
        + 16 * b(4) + 32 * b(5) + 64 * b(6) + 128 * b(7)

\* Some encode call can save exactly this image: along the pixel order of
\* one of the passwords its channel LSBs spell the marker, a length that
\* fits the image, and that many bytes of UTF-8 text.
encode_can_produce(arr) ==
    \E q \in Passwords :
        LET coords == encode_pixel_coords(width_of(arr), height_of(arr), q,
                                          rng_unseeded)[1]
            fits == (3 * Len(coords)) \div 8
        IN  /\ fits >= header_size
            /\ spells_marker(arr, coords)
            /\ LET n == unpack_le32([k \in 1..4 |->
                                        lsb_byte(arr, coords, marker_size + k)])
               IN  /\ n <= fits - header_size
                   /\ bytes_decode([k \in 1..n |->
                          lsb_byte(arr, coords, header_size + k)])
                         # UnicodeDecodeError

\* C3 as stated: decode of an image that encode never produced (an input
\* image that no encode call can save) returns None, for every password.
C3_InputNeverDecodes ==
    (DecodedInput /\ ~encode_can_produce(dec_array)) => result = None

\* The image carries the marker along a pixel order decode tries for the
\* password q: the order of q, and raster order.
carries_marker(arr, q) ==
    \/ spells_marker(arr, raster_coords(width_of(arr), height_of(arr)))
    \/ /\ Truthy(q)
       /\ spells_marker(arr, shuffled_coords(width_of(arr), height_of(arr),
                                             q)[1])

\* C3, amended: decode of an input image whose channel LSBs do not start
\* with the marker, neither in raster order nor in the order of the
\* password, returns None, for every password.
C3_NonCarrierRejected ==
    (DecodedInput /\ ~carries_marker(dec_array, dec_password))
        => result = None

C3_Witness ==
    /\ DecodedInput
    /\ ~carries_marker(dec_array, dec_password)
    /\ dec_password = pw_noos
    /\ attempt = 2
    /\ width_of(dec_array) * height_of(dec_array) >= 30
    /\ result = None

\* C4: once encode has made its capacity check, it has raised the error
\* exactly if 8 * (7 + 4 + len(message bytes)) exceeds 3 * width * height,
\* the error reports these two numbers, and otherwise encode goes on and
\* saves an image.
C4_CapacityBoundary ==
    (message # None /\ pc # "enc_check")
        => LET need == 8 * (7 + 4 + Len(str_encode(message)))
               have == 3 * width_of(image) * height_of(image)
           IN  IF need <= have
               THEN /\ pc # "enc_raised"
                    /\ raised = <<>>
                    /\ pc \notin {"enc_coords", "enc_embed", "enc_save"}
                          => output # NoImage
               ELSE /\ pc = "enc_raised"
                    /\ raised = <<need, have>>

C4_Witness ==
    /\ pc = "enc_done"
    /\ output # NoImage
    /\ 8 * (7 + 4 + Len(str_encode(message)))
          = 3 * width_of(image) * height_of(image)

\* C5: a step in which encode raises the capacity error changes no pixel
\* of the loaded image, and leaves no modified copy and no output image.
C5_AtomicCapacityFailure ==
    [][pc' = "enc_raised"
          => (image' = image /\ stego_array' = NoImage /\ output' = NoImage)]_vars

C5_Witness ==
    /\ pc = "enc_raised"
    /\ raised # <<>>
    /\ stego_array = NoImage
    /\ output = NoImage

\* C6: in the image encode saved, the LSBs of the channels R, G, B of the
\* pixels in pixel order start with the bits of 'SSSTEGO' || length (4
\* bytes, little-endian) || payload, each byte bit 0 first.
C6_FrameLayout ==
    pc = "enc_done"
        => LET payload == str_encode(message)
           IN  \A s \in 0..(8 * (11 + Len(payload)) - 1) :
                  lsb_at(output, pixel_coords, s)
                    = (frame_byte(payload, (s \div 8) + 1) \div (2 ^ (s % 8))) % 2

C6_Witness ==
    /\ pc = "enc_done"
    /\ password = pw_noos
    /\ message = <<104, 233>>
    /\ output # image

\* coords lists every pixel of the width x height grid exactly once.
IsGridPermutation(coords, width, height) ==
    /\ Len(coords) = width * height
    /\ \A k \in 1..Len(coords) :
          /\ 0 <= coords[k][1] /\ coords[k][1] < width
          /\ 0 <= coords[k][2] /\ coords[k][2] < height
    /\ Cardinality({coords[k] : k \in 1..Len(coords)}) = Len(coords)

\* C7: the pixel order encode and _decode_image build is a permutation of
\* the grid, for every password.
C7_PixelOrderPermutation ==
    /\ pc = "enc_embed"
          => IsGridPermutation(pixel_coords, width_of(image), height_of(image))
    /\ pc = "dec_header"
          => IsGridPermutation(dec_coords, width_of(dec_array),
                               height_of(dec_array))

C7_Witness ==
    /\ pc = "dec_header"
    /\ att_password = pw_b
    /\ width_of(dec_array) = 11
    /\ dec_coords # raster_coords(11, 8)
    /\ IsGridPermutation(dec_coords, 11, 8)

\* The k-th coordinate (from 0) of coords is (k mod width, k div width).
IsRasterOrder(coords, width, height) ==
    /\ Len(coords) = width * height
    /\ \A k \in 0..(Len(coords) - 1) :
          coords[k + 1] = <<k % width, k \div width>>

\* C8: without a password, encode and _decode_image visit the pixels in
\* raster order.
C8_RasterWithoutPassword ==
    /\ (pc = "enc_embed" /\ password = None)
          => IsRasterOrder(pixel_coords, width_of(image), height_of(image))
    /\ (pc = "dec_header" /\ att_password = None)
          => IsRasterOrder(dec_coords, width_of(dec_array),
                           height_of(dec_array))

C8_Witness ==
    /\ pc = "dec_header"
    /\ att_password = None
    /\ width_of(dec_array) = 5
    /\ height_of(dec_array) = 8
    /\ dec_coords[6] = <<0, 1>>

\* C10: every channel value of the array encode modifies, and of the image
\* it saves, is in 0..255 and agrees with the loaded image on bits 1 to 7.
C10_LsbOnly ==
    \A arr \in {stego_array, output} \ {NoImage} :
        \A y \in 1..Len(image) : \A x \in 1..Len(image[1]) : \A c \in 1..3 :
            /\ arr[y][x][c] \in 0..255
            /\ arr[y][x][c] \div 2 = image[y][x][c] \div 2

C10_Witness ==
    /\ pc = "enc_done"
    /\ output # image
    /\ \E y \in 1..Len(image) : \E x \in 1..Len(image[1]) :
          image[y][x][1] = 255 /\ output[y][x][1] = 254

\* C9: any two finished pixel mappings for the same (width, height,
\* password) hold the same sequence, whatever other calls ran concurrently.
C9_ConcurrentDeterminism ==
    \A s \in DOMAIN threads : \A t \in DOMAIN threads :
        (/\ threads[s].pc = "done"
         /\ threads[t].pc = "done"
         /\ threads[s].width = threads[t].width
         /\ threads[s].height = threads[t].height
         /\ threads[s].password = threads[t].password)
            => threads[s].pixel_coords = threads[t].pixel_coords

\* The value of channel slot s (0-based; slot 3k + c is channel c of the
\* k-th pixel of coords) of an image.
channel_at(arr, coords, s) ==
    arr[coords[(s \div 3) + 1][2] + 1][coords[(s \div 3) + 1][1] + 1][(s % 3) + 1]

\* C11: once the embedding loop has run, every channel slot along the
\* pixel order from slot 8 * (11 + len) on (the channels left in the last
\* pixel used, and all channels of every later pixel) has the value of the
\* loaded image, in the modified array and in the saved image.
C11_PastFrameUntouched ==
    pc \in {"enc_save", "enc_done"}
        => \A arr \in {stego_array, output} \ {NoImage} :
              \A s \in (8 * (11 + Len(str_encode(message))))
                          ..(3 * Len(pixel_coords) - 1) :
                  channel_at(arr, pixel_coords, s)
                      = channel_at(image, pixel_coords, s)

\* A saved image whose frame ends inside a pixel, whose next channel has
\* LSB 1, on a shuffled order.
C11_Witness ==
    /\ pc = "enc_done"
    /\ password = pw_noos
    /\ (8 * Len(message_bytes)) % 3 # 0
    /\ 8 * Len(message_bytes) < 3 * Len(pixel_coords)
    /\ channel_at(output, pixel_coords, 8 * Len(message_bytes)) % 2 = 1
    /\ output # image

\* A str: a sequence of code points.
IsText(v) ==
    /\ v # None
    /\ v # UnicodeDecodeError
    /\ \A k \in 1..Len(v) : v[k] \in 0..1114111

\* C12: no exception leaves a _decode_image call or decode: every call
\* that has ended returned None or a str, and None if an exception was
\* raised inside it; this for images of fewer than 88 channel values and
\* for declared lengths that need more bits than the image holds too.
C12_DecodeNeverFaults ==
    /\ pc # "dec_raised"
    /\ pc \in {"dec_returned", "dec_done"}
          => /\ att_result = None \/ IsText(att_result)
             /\ att_error => att_result = None
    /\ pc = "dec_done" => (result = None \/ IsText(result))

\* A call on an image of fewer than 88 channel values that holds the
\* marker: struct.unpack raised, and the call returned None.
C12_Witness ==
    /\ pc = "dec_returned"
    /\ att_error
    /\ att_result = None
    /\ marker_found(header_bytes)
    /\ 3 * width_of(dec_array) * height_of(dec_array) < 8 * header_size

\* A call that found the marker and a length in 1..width*height that needs
\* more bits than the image holds returned None.
C12_WitnessTooLong ==
    /\ pc = "dec_returned"
    /\ marker_found(header_bytes)
    /\ ~invalid_length(message_length, dec_array)
    /\ 8 * (header_size + message_length)
          > 3 * width_of(dec_array) * height_of(dec_array)
    /\ att_result = None
    /\ ~att_error

\* The steps of the retry policy that C13 and its amended form share: the
\* first call gets the password of decode, a second call is made only with
\* a password supplied and is made without password, there are at most two
\* calls, and decode returns what the first call returned if that is a
\* message.
RetrySteps ==
    /\ attempt' <= 2
    /\ attempt' = 1 => att_password' = dec_password'
    /\ (attempt = 1 /\ attempt' = 2)
          => (Truthy(dec_password) /\ att_password' = None)
    /\ ~Truthy(dec_password') => attempt' <= 1
    /\ (pc' = "dec_done" /\ Truthy(first_result'))
          => (attempt' = 1 /\ result' = first_result')

\* C13 as stated: the second call is made only after a first call that
\* found no valid marker (no marker followed by a length in
\* 1..width*height).
C13_RetryOnlyWithoutMarker ==
    [][/\ RetrySteps
       /\ (attempt = 1 /\ attempt' = 2)
             => ~(/\ marker_found(header_bytes)
                  /\ ~invalid_length(message_length, dec_array))]_vars

\* C13, amended: decode first calls _decode_image with the password it was
\* given; a second call, without password and so in raster order, is made
\* only after the first call returned None and only if a password was
\* supplied; without password exactly one call is made; at most two calls
\* are made, and a message the first call returns is returned without a
\* second call.
C13_RetryPolicy ==
    [][/\ RetrySteps
       /\ (attempt = 1 /\ attempt' = 2) => att_result = None
       /\ (attempt' = 2 /\ pc' = "dec_header")
             => IsRasterOrder(dec_coords', width_of(dec_array'),
                              height_of(dec_array'))
       /\ (pc' = "dec_done" /\ attempt' = 2) => first_result' = None]_vars

\* decode returned the message of the second, raster-order call after the
\* call with the password returned None.
C13_Witness ==
    /\ pc = "dec_done"
    /\ dec_password = pw_noos
    /\ attempt = 2
    /\ att_password = None
    /\ first_result = None
    /\ IsText(result)

\* decode has returned for an image encode saved with a non-empty
\* password, and was given another non-empty password.
DecodedWithWrongPassword ==
    /\ DecodedOutput
    /\ Truthy(password)
    /\ Truthy(dec_password)
    /\ dec_password # password

\* C14 as stated: decode of an image encode saved with password p, with a
\* different password q, returns None after two calls.
C14_WrongPasswordAbsent ==
    DecodedWithWrongPassword => (result = None /\ attempt = 2)

\* C14, amended: decode of an image encode saved with a non-empty password
\* p, with a different non-empty password q, returns None after the call in
\* the order of q and the call in raster order both returned None, if the
\* channel LSBs of the saved image start with the marker neither in the
\* order of q nor in raster order.
C14_WrongPasswordNoMarker ==
    (DecodedWithWrongPassword /\ ~carries_marker(dec_array, dec_password))
        => /\ result = None
           /\ attempt = 2
           /\ first_result = None
           /\ att_result = None

C14_Witness ==
    /\ DecodedWithWrongPassword
    /\ ~carries_marker(dec_array, dec_password)
    /\ password = pw_noos
    /\ dec_password = pw_b
    /\ message = <<104, 233>>
    /\ attempt = 2
    /\ result = None

\* The digit a base64 character stands for (-1: none).
b64_digit(c) ==
    IF c >= 65 /\ c <= 90 THEN c - 65
    ELSE IF c >= 97 /\ c <= 122 THEN c - 97 + 26
    ELSE IF c >= 48 /\ c <= 57 THEN c - 48 + 52
    ELSE IF c = 43 THEN 62
    ELSE IF c = 47 THEN 63
    ELSE -1

\* base64.b64decode(t): the bytes a padded base64 text stands for, or
\* <<-1>> if it is none.
RECURSIVE b64decode(_)
b64decode(t) ==
    IF t = <<>> THEN <<>>
    ELSE IF Len(t) < 4 THEN <<-1>>
    ELSE
      LET d(i) == b64_digit(t[i])
          last == Len(t) = 4
          rest == b64decode(SubSeq(t, 5, Len(t)))
      IN  IF d(1) < 0 \/ d(2) < 0 THEN <<-1>>
          ELSE IF last /\ t[3] = 61 /\ t[4] = 61
               THEN IF d(2) % 16 = 0 THEN <<d(1) * 4 + d(2) \div 16>>
                    ELSE <<-1>>
          ELSE IF d(3) < 0 THEN <<-1>>
          ELSE IF last /\ t[4] = 61
               THEN IF d(3) % 4 = 0
                    THEN <<d(1) * 4 + d(2) \div 16,
                           (d(2) % 16) * 16 + d(3) \div 4>>
                    ELSE <<-1>>
          ELSE IF d(4) < 0 \/ rest = <<-1>> THEN <<-1>>
          ELSE <<d(1) * 4 + d(2) \div 16, (d(2) % 16) * 16 + d(3) \div 4,
                 (d(3) % 4) * 64 + d(4)>> \o rest

\* The _decode_image call has returned after it found the marker and a
\* length in 1..width*height and held the bits of all the bytes.
ExtractedPayload ==
    /\ pc = "dec_returned"
    /\ ~att_error
    /\ marker_found(header_bytes)
    /\ ~invalid_length(message_length, dec_array)
    /\ Len(extracted_bits) >= 8 * (header_size + message_length)

\* The payload bytes of the image along the pixel order of the call.
payload_bytes ==
    [k \in 1..message_length |->
        lsb_byte(dec_array, dec_coords, header_size + k)]

\* C15: a call that found the marker and a valid length and extracted the
\* payload returns, if the payload is UTF-8, the text that encodes to
\* exactly the payload, and else the base64 text of exactly the payload.
C15_PayloadText ==
    ExtractedPayload
        => /\ IsText(att_result)
           /\ IF bytes_decode(payload_bytes) # UnicodeDecodeError
              THEN str_encode(att_result) = payload_bytes
              ELSE b64decode(att_result) = payload_bytes

\* A call that returned the base64 text, with one padding character, of a
\* two-byte payload that is not UTF-8.
C15_Witness ==
    /\ ExtractedPayload
    /\ message_length = 2
    /\ bytes_decode(payload_bytes) = UnicodeDecodeError
    /\ Len(att_result) = 4
    /\ att_result[4] = 61
    /\ att_result[3] # 61

\* A call that returned the text of a two-byte UTF-8 payload.
C15_WitnessUtf8 ==
    /\ ExtractedPayload
    /\ message_length = 2
    /\ att_result = <<233>>

\* The length the image declares along the pixel order of the call: the
\* four bytes after the marker, little-endian.
declared_length ==
    lsb_byte(dec_array, dec_coords, 8)
    + 256 * lsb_byte(dec_array, dec_coords, 9)
    + 65536 * lsb_byte(dec_array, dec_coords, 10)
    + 16777216 * lsb_byte(dec_array, dec_coords, 11)

\* C16: a _decode_image call on an image whose LSBs spell the marker and
\* then a length that is 0 or more than width * height returns None and
\* has read the pixels of the header only; no call and no decode returns
\* the empty str.
C16_LengthValidation ==
    /\ (/\ pc = "dec_returned"
        /\ 3 * Len(dec_coords) >= 8 * header_size
        /\ spells_marker(dec_array, dec_coords)
        /\ \/ declared_length = 0
           \/ declared_length > width_of(dec_array) * height_of(dec_array))
          => /\ att_result = None
             /\ 3 * (Len(reads) - 1) < 8 * header_size
             /\ Len(extracted_bits) = 3 * Len(reads)
    /\ pc \in {"dec_returned", "dec_done"} => att_result # <<>>
    /\ pc = "dec_done" => result # <<>>

\* A call that returned None for the declared length 0, after the 30 pixels
\* of the header.
C16_Witness ==
    /\ pc = "dec_returned"
    /\ spells_marker(dec_array, dec_coords)
    /\ Len(header_bytes) = header_size
    /\ declared_length = 0
    /\ att_result = None
    /\ Len(reads) = 30
    /\ Len(dec_coords) > 30

\* A call that returned None for a declared length above width * height.
C16_WitnessTooLarge ==
    /\ pc = "dec_returned"
    /\ spells_marker(dec_array, dec_coords)
    /\ Len(header_bytes) = header_size
    /\ declared_length > width_of(dec_array) * height_of(dec_array)
    /\ att_result = None
    /\ Len(reads) = 30

\* C17: the pixels a _decode_image call has read, header scan and body
\* scan together, are a prefix of its pixel order, each read once and in
\* that order, and the k-th bit it holds is the LSB of channel k mod 3 of
\* the (k div 3)-th pixel of the order.
C17_ScanContinuity ==
    /\ Len(reads) <= Len(dec_coords)
    /\ reads = SubSeq(dec_coords, 1, Len(reads))
    /\ Len(extracted_bits) = 3 * Len(reads)
    /\ \A k \in 0..(Len(extracted_bits) - 1) :
          extracted_bits[k + 1] = lsb_at(dec_array, dec_coords, k)

\* A call in a shuffled order whose body scan has read pixels beyond the
\* 30 of the header scan.
C17_Witness ==
    /\ pc = "dec_extract"
    /\ att_password = pw_noos
    /\ Len(reads) > 30
    /\ reads = SubSeq(dec_coords, 1, Len(reads))
    /\ dec_coords # raster_coords(width_of(dec_array), height_of(dec_array))

\* C18: what the window shows for a finished operation is the report of
\* the operation that was started (an encode: the success box with the
\* output path; a decode: the decoded message, or the decode failure), and
\* at most one worker operation is in progress.
C18_ReportMatchesStarted ==
    /\ gui.workers <= 1
    /\ gui.shown_for = "encode"
          => \/ gui.shown = "encode_success" /\ gui.shown_result = "path"
             \/ gui.shown = "operation_failed"
    /\ gui.shown_for = "decode"
          => \/ gui.shown = "decoded_message" /\ gui.shown_result = "message"
             \/ gui.shown = "decode_failed" /\ gui.shown_result = "none"
             \/ gui.shown = "operation_failed"

=============================================================================
